---- MODULE Spec2Model ----
(***************************************************************************)
(* WHOIS registrar lookup (hw1.py): domain normalisation, WHOIS response   *)
(* parsing, registrar resolution, referral following and the thread-pool   *)
(* batch, modelled as state machines.                                      *)
(*                                                                         *)
(* A Python str is a sequence of one-character strings, so that split,     *)
(* strip, lower, startswith and the substring test are computed and not    *)
(* assumed.  A Python dict is a function whose domain is a set of such     *)
(* sequences.  None is a value no str can equal.                           *)
(***************************************************************************)
EXTENDS Integers, Sequences, FiniteSets

VARIABLES
    fnIn,       \* argument of the pure function under test
    fnOut,      \* its return value
    fnAgain,    \* the return value of applying it to its own result
    fnPc,       \* "idle" | "input" | "called" | "recalled"
    domains,    \* argument of get_registrars_for_domains
    fut,        \* one future per submitted call of get_registrar_for_domain
    completed,  \* indices of the futures, in the order they completed
    results,    \* the list being built by list(executor.map(...))
    bpc,        \* "idle" | "called" | "mapping" | "raised" | "returned" | "printed"
    printed     \* what print_results wrote

fnVars == <<fnIn, fnOut, fnAgain, fnPc>>
batchVars == <<domains, fut, completed, results, bpc, printed>>
vars == <<fnIn, fnOut, fnAgain, fnPc, domains, fut, completed, results, bpc, printed>>

None == <<"None">>

----------------------------------------------------------------------------
(* Bounds of the model.                                                    *)

MaxLabels == 4
MaxLines == 3
MaxPresent == 3
MaxDomains == 2

----------------------------------------------------------------------------
(* str methods.                                                            *)

UpperChars ==
    <<"A", "B", "C", "D", "E", "F", "G", "H", "I", "J", "K", "L", "M",
      "N", "O", "P", "Q", "R", "S", "T", "U", "V", "W", "X", "Y", "Z">>

LowerChars ==
    <<"a", "b", "c", "d", "e", "f", "g", "h", "i", "j", "k", "l", "m",
      "n", "o", "p", "q", "r", "s", "t", "u", "v", "w", "x", "y", "z">>

LowerChar(c) ==
    IF \E i \in 1..Len(UpperChars) : UpperChars[i] = c
    THEN LowerChars[CHOOSE i \in 1..Len(UpperChars) : UpperChars[i] = c]
    ELSE c

Lower(s) == [i \in 1..Len(s) |-> LowerChar(s[i])]

IsSpace(c) == c \in {" ", "\t", "\n", "\r", "\f"}

SetMin(S) == CHOOSE x \in S : \A y \in S : x <= y

SetMax(S) == CHOOSE x \in S : \A y \in S : x >= y

Strip(s) ==
    LET keep == {i \in 1..Len(s) : ~IsSpace(s[i])}
    IN  IF keep = {} THEN <<>> ELSE SubSeq(s, SetMin(keep), SetMax(keep))

StartsWith(s, p) == Len(s) >= Len(p) /\ SubSeq(s, 1, Len(p)) = p

Contains(s, sub) ==
    \E i \in 0..(Len(s) - Len(sub)) : SubSeq(s, i + 1, i + Len(sub)) = sub

\* s.split(c): the segments between the occurrences of the character c.
Split(s, c) ==
    LET pos == {i \in 1..Len(s) : s[i] = c}
        n == Cardinality(pos)
        edge(k) == IF k = 0 THEN 0
                   ELSE IF k = n + 1 THEN Len(s) + 1
                   ELSE CHOOSE p \in pos : Cardinality({q \in pos : q < p}) = k - 1
    IN  [k \in 1..(n + 1) |-> SubSeq(s, edge(k - 1) + 1, edge(k) - 1)]

\* s.split(c, 1): at most one split, at the first occurrence of c.
SplitFirst(s, c) ==
    LET pos == {i \in 1..Len(s) : s[i] = c}
    IN  IF pos = {} THEN <<s>>
        ELSE <<SubSeq(s, 1, SetMin(pos) - 1), SubSeq(s, SetMin(pos) + 1, Len(s))>>

RECURSIVE Join(_, _)
Join(parts, c) ==
    IF Len(parts) = 0 THEN <<>>
    ELSE IF Len(parts) = 1 THEN parts[1]
    ELSE parts[1] \o <<c>> \o Join(Tail(parts), c)

\* d[key] = value on a dict.
DictSet(d, key, value) ==
    [k \in (DOMAIN d) \cup {key} |-> IF k = key THEN value ELSE d[k]]

EmptyDict == [k \in {} |-> <<>>]

\* Truth value of an Optional[str]: None and "" are false.
Truthy(x) == x # None /\ x # <<>>

----------------------------------------------------------------------------
(* String literals of the program.                                         *)

L_www == <<"w", "w", "w">>
L_mail == <<"m", "a", "i", "l">>
L_ftp == <<"f", "t", "p">>
L_blog == <<"b", "l", "o", "g">>
L_shop == <<"s", "h", "o", "p">>
F_registrar == <<"r", "e", "g", "i", "s", "t", "r", "a", "r">>
F_sponsoring_registrar == <<"s", "p", "o", "n", "s", "o", "r", "i", "n", "g", " ", "r", "e", "g", "i", "s", "t", "r", "a", "r">>
F_registrar_name == <<"r", "e", "g", "i", "s", "t", "r", "a", "r", " ", "n", "a", "m", "e">>
F_registrar_organization == <<"r", "e", "g", "i", "s", "t", "r", "a", "r", " ", "o", "r", "g", "a", "n", "i", "z", "a", "t", "i", "o", "n">>
F_registrant_organization == <<"r", "e", "g", "i", "s", "t", "r", "a", "n", "t", " ", "o", "r", "g", "a", "n", "i", "z", "a", "t", "i", "o", "n">>
F_whois_server == <<"w", "h", "o", "i", "s", " ", "s", "e", "r", "v", "e", "r">>
F_referral_whois_server == <<"r", "e", "f", "e", "r", "r", "a", "l", " ", "w", "h", "o", "i", "s", " ", "s", "e", "r", "v", "e", "r">>
F_whois == <<"w", "h", "o", "i", "s">>
N_http == <<"h", "t", "t", "p">>
N_whois == <<"w", "h", "o", "i", "s">>
N_com == <<".", "c", "o", "m", "/">>
N_net == <<".", "n", "e", "t", "/">>
S_Timeout == <<"T", "i", "m", "e", "o", "u", "t">>
S_ErrorPrefix == <<"E", "r", "r", "o", "r", ":", " ">>
S_CommandFailedPrefix == <<"W", "H", "O", "I", "S", " ", "c", "o", "m", "m", "a", "n", "d", " ", "f", "a", "i", "l", "e", "d", ":", " ">>
S_NoData == <<"N", "o", " ", "W", "H", "O", "I", "S", " ", "d", "a", "t", "a", " ", "r", "e", "t", "u", "r", "n", "e", "d">>
S_NoRegistrarFound == <<"N", "o", " ", "r", "e", "g", "i", "s", "t", "r", "a", "r", " ", "f", "o", "u", "n", "d">>
S_Arrow == <<" ", "-", ">", " ", "R", "e", "g", "i", "s", "t", "r", "a", "r", ":", " ">>

common_subdomains == {L_www, L_mail, L_ftp, L_blog, L_shop}

registrar_fields ==
    <<F_registrar, F_sponsoring_registrar, F_registrar_name,
      F_registrar_organization, F_registrant_organization>>

registrar_noise == {N_http, N_whois, N_com, N_net}

referral_fields == <<F_whois_server, F_referral_whois_server, F_whois>>

----------------------------------------------------------------------------
(* extract_registrable_domain                                              *)

extract_registrable_domain(domain) ==
    LET parts == Split(Lower(domain), ".")
    IN  IF Len(parts) > 2 /\ parts[1] \in common_subdomains
        THEN Join(Tail(parts), ".")
        ELSE domain

----------------------------------------------------------------------------
(* parse_whois_data                                                        *)

\* ParseLine with the bug of keeping a key's first value: the store is
\* guarded by "key not in result".
ParseLineKeepsFirst(result, rawLine) ==
    LET line == Strip(rawLine)
    IN  IF line = <<>> \/ StartsWith(line, <<"%">>) \/ StartsWith(line, <<"#">>)
        THEN result
        ELSE IF Contains(line, <<":">>)
        THEN LET kv == SplitFirst(line, ":")
                 key == Lower(Strip(kv[1]))
                 value == Strip(kv[2])
             IN  IF value # <<>> /\ key \notin DOMAIN result
                 THEN DictSet(result, key, value)
                 ELSE result
        ELSE result

\* One iteration of the loop over the lines: the dict after the line.
ParseLine(result, rawLine) ==
    LET line == Strip(rawLine)
    IN  IF line = <<>> \/ StartsWith(line, <<"%">>) \/ StartsWith(line, <<"#">>)
        THEN result
        ELSE IF Contains(line, <<":">>)
        THEN LET kv == SplitFirst(line, ":")
                 key == Lower(Strip(kv[1]))
                 value == Strip(kv[2])
             IN  IF value # <<>> THEN DictSet(result, key, value) ELSE result
        ELSE result

RECURSIVE ParseLines(_, _)
ParseLines(result, lines) ==
    IF Len(lines) = 0 THEN result
    ELSE ParseLines(ParseLine(result, Head(lines)), Tail(lines))

parse_whois_data(data) == ParseLines(EmptyDict, Split(data, "\n"))

----------------------------------------------------------------------------
(* find_registrar and check_referral                                       *)

RegistrarNoise(registrar) ==
    \E x \in registrar_noise : Contains(Lower(registrar), x)

RECURSIVE FindRegistrarFrom(_, _)
FindRegistrarFrom(parsed_data, i) ==
    IF i > Len(registrar_fields) THEN None
    ELSE IF registrar_fields[i] \in DOMAIN parsed_data
            /\ ~RegistrarNoise(parsed_data[registrar_fields[i]])
    THEN parsed_data[registrar_fields[i]]
    ELSE FindRegistrarFrom(parsed_data, i + 1)

\* find_registrar with the bug of giving up at the first present field:
\* its value is returned if acceptable, and None otherwise.
find_registrar_stops_at_noise(parsed_data) ==
    LET present == {i \in 1..Len(registrar_fields) :
                      registrar_fields[i] \in DOMAIN parsed_data}
    IN  IF present = {} THEN None
        ELSE IF RegistrarNoise(parsed_data[registrar_fields[SetMin(present)]])
        THEN None
        ELSE parsed_data[registrar_fields[SetMin(present)]]

find_registrar(parsed_data) == FindRegistrarFrom(parsed_data, 1)

RECURSIVE CheckReferralFrom(_, _)
CheckReferralFrom(parsed_data, i) ==
    IF i > Len(referral_fields) THEN None
    ELSE IF referral_fields[i] \in DOMAIN parsed_data
            /\ Truthy(parsed_data[referral_fields[i]])
            /\ ~StartsWith(Lower(parsed_data[referral_fields[i]]), N_http)
    THEN parsed_data[referral_fields[i]]
    ELSE CheckReferralFrom(parsed_data, i + 1)

check_referral(parsed_data) == CheckReferralFrom(parsed_data, 1)

----------------------------------------------------------------------------
(* The pure functions, each applied to every input of a bounded set.       *)

BatchIdle ==
    /\ domains = <<>>
    /\ fut = <<>>
    /\ completed = <<>>
    /\ results = <<>>
    /\ bpc = "idle"
    /\ printed = None

D_Mail == <<"M", "a", "i", "l">>
D_Example == <<"E", "x", "a", "m", "p", "l", "e">>
D_com == <<"c", "o", "m">>
D_httpswww == <<"h", "t", "t", "p", "s", ":", "/", "/", "w", "w", "w">>

\* Labels the input domains are built from: strippable ones in both cases,
\* a mixed-case name, a TLD, and a URL-form first label.
NormLabels == {L_www, D_Mail, L_shop, D_Example, D_com, D_httpswww}

NormInputs ==
    {Join(ls, ".") : ls \in UNION {[1..k -> NormLabels] : k \in 1..MaxLabels}}

InitNormalize ==
    /\ fnIn \in NormInputs
    /\ fnOut = None
    /\ fnAgain = None
    /\ fnPc = "input"
    /\ BatchIdle

Normalize ==
    /\ fnPc = "input"
    /\ fnOut' = extract_registrable_domain(fnIn)
    /\ fnPc' = "called"
    /\ UNCHANGED <<fnIn, fnAgain, batchVars>>

Renormalize ==
    /\ fnPc = "called"
    /\ fnAgain' = extract_registrable_domain(fnOut)
    /\ fnPc' = "recalled"
    /\ UNCHANGED <<fnIn, fnOut, batchVars>>

NextNormalize == Normalize \/ Renormalize

SpecNormalize == InitNormalize /\ [][NextNormalize]_vars

LS_comment == <<"%", " ", "k", ":", " ", "v">>
LS_hash == <<"#", "k", ":", "v">>
LS_Kv == <<"K", ":", " ", "v">>
LS_kw == <<"k", ":", "w">>
LS_colons == <<" ", "K", " ", ":", " ", "a", ":", "b", " ">>
LS_novalue == <<"k", ":", " ">>
LS_plain == <<"p", "l", "a", "i", "n">>
LS_crlf == <<"x", ":", "v", "\r">>
LS_blank == <<" ", "\t">>
LS_nokey == <<":", "v">>

\* Lines the response texts are built from: empty and blank lines, both
\* comment markers, keys in both cases, a value holding a colon, an empty
\* value, a line without a colon, a CRLF line ending and an empty key.
LineSamples ==
    {<<>>, LS_blank, LS_comment, LS_hash, LS_Kv, LS_kw, LS_colons,
     LS_novalue, LS_plain, LS_crlf, LS_nokey}

ParseInputs ==
    {Join(ls, "\n") : ls \in UNION {[1..k -> LineSamples] : k \in 1..MaxLines}}

InitParse ==
    /\ fnIn \in ParseInputs
    /\ fnOut = None
    /\ fnAgain = None
    /\ fnPc = "input"
    /\ BatchIdle

Parse ==
    /\ fnPc = "input"
    /\ fnOut' = parse_whois_data(fnIn)
    /\ fnPc' = "called"
    /\ UNCHANGED <<fnIn, fnAgain, batchVars>>

NextParse == Parse

SpecParse == InitParse /\ [][NextParse]_vars

V_Acme == <<"A", "c", "m", "e">>
V_url == <<"H", "T", "T", "P", ":", "/", "/", "a">>
V_com == <<"r", ".", "c", "o", "m", "/", "x">>
V_net == <<"b", ".", "N", "e", "t", "/">>
V_whois == <<"W", "h", "o", "i", "s", ".", "x">>

\* Field values: a plain name and one value for each noise pattern.
ValueSamples == {V_Acme, V_url, V_com, V_net, V_whois}

\* Parsed records holding at most MaxPresent of the candidate fields.
ResolveInputs ==
    UNION {[F -> ValueSamples] :
             F \in {G \in SUBSET {registrar_fields[i] : i \in 1..Len(registrar_fields)} :
                      Cardinality(G) <= MaxPresent}}

InitResolve ==
    /\ fnIn \in ResolveInputs
    /\ fnOut = None
    /\ fnAgain = None
    /\ fnPc = "input"
    /\ BatchIdle

Resolve ==
    /\ fnPc = "input"
    /\ fnOut' = find_registrar(fnIn)
    /\ fnPc' = "called"
    /\ UNCHANGED <<fnIn, fnAgain, batchVars>>

NextResolve == Resolve

SpecResolve == InitResolve /\ [][NextResolve]_vars

----------------------------------------------------------------------------
(* subprocess.run: what the WHOIS client can do within the timeout.        *)

NoRun ==
    [kind |-> "none", returncode |-> 0, stdout |-> <<>>, stderr |-> <<>>, msg |-> <<>>]

TimeoutExpired ==
    [kind |-> "TimeoutExpired", returncode |-> 0, stdout |-> <<>>, stderr |-> <<>>, msg |-> <<>>]

OtherException(msg) ==
    [kind |-> "Exception", returncode |-> 0, stdout |-> <<>>, stderr |-> <<>>, msg |-> msg]

CompletedProcess(returncode, stdout, stderr) ==
    [kind |-> "CompletedProcess", returncode |-> returncode, stdout |-> stdout,
     stderr |-> stderr, msg |-> <<>>]

T_blank == <<" ", "\n">>
T_direct == <<"R", "e", "g", "i", "s", "t", "r", "a", "r", ":", " ", "A", "c", "m", "e", "\n", "W", "h", "o", "i", "s", " ", "S", "e", "r", "v", "e", "r", ":", " ", "w", ".", "i", "o", "\n">>
T_referral == <<"%", " ", "c", "\n", "R", "e", "g", "i", "s", "t", "r", "a", "r", ":", " ", "h", "t", "t", "p", ":", "/", "/", "r", ".", "i", "o", "\n", "W", "h", "o", "i", "s", " ", "S", "e", "r", "v", "e", "r", ":", " ", "w", ".", "i", "o", "\n">>
T_none == <<"D", "o", "m", "a", "i", "n", ":", " ", "x", "\n">>
E_stderr == <<" ", "n", "o", "\n">>
E_msg == <<"b", "o", "o", "m">>

\* A timeout, another exception, a non-zero exit, and four responses: blank,
\* a registrar (beside a referral), a URL-valued registrar with a referral,
\* and neither registrar nor referral.
Runs ==
    <<TimeoutExpired, OtherException(E_msg), CompletedProcess(1, <<>>, E_stderr),
      CompletedProcess(0, T_blank, <<>>), CompletedProcess(0, T_direct, <<>>),
      CompletedProcess(0, T_referral, <<>>), CompletedProcess(0, T_none, <<>>)>>

\* A future names the runs it was given by their positions in Runs; 0 is
\* no run.
RunOf(r) == IF r = 0 THEN NoRun ELSE Runs[r]

----------------------------------------------------------------------------
(* lookup                                                                  *)

\* lookup without its "except subprocess.TimeoutExpired" clause and with a
\* narrower second clause: the timeout leaves lookup as an exception.
lookup_timeout_uncaught(run) ==
    IF run.kind = "CompletedProcess"
    THEN IF run.returncode # 0
         THEN [raised |-> FALSE, data |-> <<>>,
               error |-> S_CommandFailedPrefix \o Strip(run.stderr)]
         ELSE [raised |-> FALSE, data |-> run.stdout, error |-> None]
    ELSE IF run.kind = "TimeoutExpired"
    THEN [raised |-> TRUE, data |-> <<>>, error |-> None]
    ELSE [raised |-> FALSE, data |-> <<>>, error |-> S_ErrorPrefix \o run.msg]

\* (whois_data, error_message) for what subprocess.run did; raised is TRUE
\* when an exception leaves lookup.
lookup(run) ==
    IF run.kind = "CompletedProcess"
    THEN IF run.returncode # 0
         THEN [raised |-> FALSE, data |-> <<>>,
               error |-> S_CommandFailedPrefix \o Strip(run.stderr)]
         ELSE [raised |-> FALSE, data |-> run.stdout, error |-> None]
    ELSE IF run.kind = "TimeoutExpired"
    THEN [raised |-> FALSE, data |-> <<>>, error |-> S_Timeout]
    ELSE [raised |-> FALSE, data |-> <<>>, error |-> S_ErrorPrefix \o run.msg]

----------------------------------------------------------------------------
(* get_registrar_for_domain, in the two steps its two WHOIS queries make.  *)
(* A future records, beside the call's position and locals, what the call  *)
(* did: the runs it was given (out1, out2, set by the actions below), the  *)
(* queries it issued and the functions it called.                          *)

QueuedFuture ==
    [pc |-> "queued", normalized |-> None, referral_server |-> None,
     out1 |-> 0, out2 |-> 0, queries |-> <<>>, calls |-> <<>>,
     ret |-> None, raised |-> FALSE]

\* The final return with the bug of reporting the normalized domain.
no_registrar_found_normalized(domain, normalized_domain) ==
    <<normalized_domain, S_NoRegistrarFound>>

\* The final "No registrar found" return.
no_registrar_found(domain, normalized_domain) == <<domain, S_NoRegistrarFound>>

\* first_pass without the "if not whois_data.strip()" return: an empty
\* response is parsed and resolved like any other.
first_pass_skips_empty_check(domain, run) ==
    LET normalized_domain == extract_registrable_domain(domain)
        lk == lookup(run)
        looked == [pc |-> "done", normalized |-> normalized_domain,
                   referral_server |-> None, out1 |-> 0, out2 |-> 0,
                   queries |-> <<[server |-> None, domain |-> normalized_domain]>>,
                   calls |-> <<"lookup">>, ret |-> None, raised |-> FALSE]
    IN  IF lk.raised THEN [looked EXCEPT !.raised = TRUE]
        ELSE IF Truthy(lk.error) THEN [looked EXCEPT !.ret = <<domain, lk.error>>]
        ELSE LET parsed_data == parse_whois_data(lk.data)
                 registrar == find_registrar(parsed_data)
                 resolved == [looked EXCEPT
                                !.calls = @ \o <<"parse_whois_data", "find_registrar">>]
             IN  IF Truthy(registrar) THEN [resolved EXCEPT !.ret = <<domain, registrar>>]
                 ELSE LET referral_server == check_referral(parsed_data)
                          checked == [resolved EXCEPT !.calls = @ \o <<"check_referral">>]
                      IN  IF Truthy(referral_server)
                          THEN [checked EXCEPT !.pc = "referral",
                                               !.referral_server = referral_server]
                          ELSE [checked EXCEPT
                                  !.ret = no_registrar_found(domain, normalized_domain)]

\* From the normalisation to the first return or to the referral query.
first_pass(domain, run) ==
    LET normalized_domain == extract_registrable_domain(domain)
        lk == lookup(run)
        looked == [pc |-> "done", normalized |-> normalized_domain,
                   referral_server |-> None, out1 |-> 0, out2 |-> 0,
                   queries |-> <<[server |-> None, domain |-> normalized_domain]>>,
                   calls |-> <<"lookup">>, ret |-> None, raised |-> FALSE]
    IN  IF lk.raised THEN [looked EXCEPT !.raised = TRUE]
        ELSE IF Truthy(lk.error) THEN [looked EXCEPT !.ret = <<domain, lk.error>>]
        ELSE IF Strip(lk.data) = <<>> THEN [looked EXCEPT !.ret = <<domain, S_NoData>>]
        ELSE LET parsed_data == parse_whois_data(lk.data)
                 registrar == find_registrar(parsed_data)
                 resolved == [looked EXCEPT
                                !.calls = @ \o <<"parse_whois_data", "find_registrar">>]
             IN  IF Truthy(registrar) THEN [resolved EXCEPT !.ret = <<domain, registrar>>]
                 ELSE LET referral_server == check_referral(parsed_data)
                          checked == [resolved EXCEPT !.calls = @ \o <<"check_referral">>]
                      IN  IF Truthy(referral_server)
                          THEN [checked EXCEPT !.pc = "referral",
                                               !.referral_server = referral_server]
                          ELSE [checked EXCEPT
                                  !.ret = no_registrar_found(domain, normalized_domain)]

\* referral_pass with the bug of retrying a referral query that raised: a
\* third query goes to the same server.
referral_pass_retries(domain, f, run) ==
    LET queried == [f EXCEPT
                      !.pc = "done",
                      !.queries = @ \o <<[server |-> f.referral_server,
                                          domain |-> f.normalized]>>,
                      !.calls = @ \o <<"subprocess.run">>]
        retried == [queried EXCEPT
                      !.queries = @ \o <<[server |-> f.referral_server,
                                          domain |-> f.normalized]>>,
                      !.calls = @ \o <<"subprocess.run">>,
                      !.ret = no_registrar_found(domain, f.normalized)]
        notfound == [queried EXCEPT !.ret = no_registrar_found(domain, f.normalized)]
    IN  IF run.kind = "CompletedProcess"
        THEN IF run.returncode = 0 /\ Strip(run.stdout) # <<>>
             THEN LET referral_parsed == parse_whois_data(run.stdout)
                      referral_registrar == find_registrar(referral_parsed)
                      resolved == [queried EXCEPT
                                     !.calls = @ \o <<"parse_whois_data", "find_registrar">>]
                  IN  IF Truthy(referral_registrar)
                      THEN [resolved EXCEPT !.ret = <<domain, referral_registrar>>]
                      ELSE [resolved EXCEPT
                              !.ret = no_registrar_found(domain, f.normalized)]
             ELSE notfound
        ELSE retried

\* referral_pass with the bug of reporting a failed referral query the way
\* lookup reports a failed first query, instead of swallowing it.
referral_pass_reports_error(domain, f, run) ==
    LET queried == [f EXCEPT
                      !.pc = "done",
                      !.queries = @ \o <<[server |-> f.referral_server,
                                          domain |-> f.normalized]>>,
                      !.calls = @ \o <<"subprocess.run">>]
        notfound == [queried EXCEPT !.ret = no_registrar_found(domain, f.normalized)]
    IN  IF run.kind = "CompletedProcess"
        THEN IF run.returncode = 0 /\ Strip(run.stdout) # <<>>
             THEN LET referral_parsed == parse_whois_data(run.stdout)
                      referral_registrar == find_registrar(referral_parsed)
                      resolved == [queried EXCEPT
                                     !.calls = @ \o <<"parse_whois_data", "find_registrar">>]
                  IN  IF Truthy(referral_registrar)
                      THEN [resolved EXCEPT !.ret = <<domain, referral_registrar>>]
                      ELSE [resolved EXCEPT
                              !.ret = no_registrar_found(domain, f.normalized)]
             ELSE notfound
        ELSE [queried EXCEPT !.ret = <<domain, lookup(run).error>>]

\* From the referral query to the return; every exception of the query is
\* swallowed by the except clause.
referral_pass(domain, f, run) ==
    LET queried == [f EXCEPT
                      !.pc = "done",
                      !.queries = @ \o <<[server |-> f.referral_server,
                                          domain |-> f.normalized]>>,
                      !.calls = @ \o <<"subprocess.run">>]
        notfound == [queried EXCEPT !.ret = no_registrar_found(domain, f.normalized)]
    IN  IF run.kind = "CompletedProcess"
        THEN IF run.returncode = 0 /\ Strip(run.stdout) # <<>>
             THEN LET referral_parsed == parse_whois_data(run.stdout)
                      referral_registrar == find_registrar(referral_parsed)
                      resolved == [queried EXCEPT
                                     !.calls = @ \o <<"parse_whois_data", "find_registrar">>]
                  IN  IF Truthy(referral_registrar)
                      THEN [resolved EXCEPT !.ret = <<domain, referral_registrar>>]
                      ELSE [resolved EXCEPT
                              !.ret = no_registrar_found(domain, f.normalized)]
             ELSE notfound
        ELSE notfound

----------------------------------------------------------------------------
(* get_registrars_for_domains and print_results                            *)

THREADS == 5

I_mixed == <<"E", "x", "a", "m", "p", "l", "e", ".", "c", "o", "m">>
I_www == <<"w", "w", "w", ".", "E", "x", "a", "m", "p", "l", "e", ".", "c", "o", "m">>

\* Input domains: one that normalisation leaves alone and one it strips.
DomainSamples == {I_mixed, I_www}

DomainLists == UNION {[1..n -> DomainSamples] : n \in 0..MaxDomains}

N == Len(domains)

Busy == {i \in 1..Len(fut) : fut[i].pc \in {"sleeping", "referral"}}

\* The future yielded k-th had the results been taken as the calls
\* complete (as_completed) instead of by executor.map.
ResultSourceAsCompleted(k) == IF k <= Len(completed) THEN completed[k] ELSE 0

\* The future whose result executor.map yields k-th: the k-th submitted.
ResultSource(k) == k

\* result_dict of the json format: a later tuple overwrites an earlier one
\* with the same domain.
RECURSIVE ResultDict(_, _)
ResultDict(d, rs) ==
    IF Len(rs) = 0 THEN d
    ELSE ResultDict(DictSet(d, Head(rs)[1], Head(rs)[2]), Tail(rs))

\* What print_results writes: the dict handed to json.dumps, or the lines.
print_results(rs, output_format) ==
    IF output_format = "json"
    THEN [format |-> "json", dict |-> ResultDict(EmptyDict, rs), lines |-> <<>>]
    ELSE [format |-> "mapping", dict |-> EmptyDict,
          lines |-> [i \in 1..Len(rs) |-> rs[i][1] \o S_Arrow \o rs[i][2]]]

Init ==
    /\ domains \in DomainLists
    /\ fut = <<>>
    /\ completed = <<>>
    /\ results = <<>>
    /\ bpc = "called"
    /\ printed = None
    /\ fnIn = None
    /\ fnOut = None
    /\ fnAgain = None
    /\ fnPc = "idle"

\* executor.map submits one call per input domain, in input order.
Submit ==
    /\ bpc = "called"
    /\ fut' = [i \in 1..N |-> QueuedFuture]
    /\ bpc' = "mapping"
    /\ UNCHANGED <<domains, completed, results, printed, fnVars>>

\* A free worker takes the oldest queued call, which sleeps SLEEP first.
StartTask(i) ==
    /\ i \in 1..Len(fut)
    /\ fut[i].pc = "queued"
    /\ \A j \in 1..(i - 1) : fut[j].pc # "queued"
    /\ Cardinality(Busy) < THREADS
    /\ fut' = [fut EXCEPT ![i].pc = "sleeping"]
    /\ UNCHANGED <<domains, completed, results, bpc, printed, fnVars>>

FirstQuery(i) ==
    /\ i \in 1..Len(fut)
    /\ fut[i].pc = "sleeping"
    /\ \E r \in DOMAIN Runs :
         LET f == first_pass(domains[i], Runs[r])
         IN  /\ fut' = [fut EXCEPT ![i] = [f EXCEPT !.out1 = r]]
             /\ completed' = IF f.pc = "done" THEN Append(completed, i) ELSE completed
    /\ UNCHANGED <<domains, results, bpc, printed, fnVars>>

ReferralQuery(i) ==
    /\ i \in 1..Len(fut)
    /\ fut[i].pc = "referral"
    /\ \E r \in DOMAIN Runs :
         fut' = [fut EXCEPT
                   ![i] = [referral_pass(domains[i], fut[i], Runs[r]) EXCEPT !.out2 = r]]
    /\ completed' = Append(completed, i)
    /\ UNCHANGED <<domains, results, bpc, printed, fnVars>>

\* list(executor.map(...)) and the end of the with block: the main thread
\* takes the results in the order of the map iterator, which re-raises what
\* a call raised, and leaves the block once every worker has finished.  The
\* list is local to the main thread until then, so it is built in one step
\* taken when every call is done.
CollectResults ==
    /\ bpc = "mapping"
    /\ \A i \in 1..Len(fut) : fut[i].pc = "done"
    /\ \A k \in 1..N : ResultSource(k) \in 1..Len(fut)
    /\ IF \E k \in 1..N : fut[ResultSource(k)].raised
       THEN bpc' = "raised" /\ results' = results
       ELSE bpc' = "returned" /\ results' = [k \in 1..N |-> fut[ResultSource(k)].ret]
    /\ UNCHANGED <<domains, fut, completed, printed, fnVars>>

PrintResults ==
    /\ bpc = "returned"
    /\ \E output_format \in {"mapping", "json"} :
         printed' = print_results(results, output_format)
    /\ bpc' = "printed"
    /\ UNCHANGED <<domains, fut, completed, results, fnVars>>

Next ==
    \/ Submit
    \/ \E i \in 1..N : StartTask(i)
    \/ \E i \in 1..N : FirstQuery(i)
    \/ \E i \in 1..N : ReferralQuery(i)
    \/ CollectResults
    \/ PrintResults

Spec == Init /\ [][Next]_vars

----------------------------------------------------------------------------
(* Properties of the batch (specification Spec).                           *)

Succeeded(run) ==
    run.kind = "CompletedProcess" /\ run.returncode = 0 /\ Strip(run.stdout) # <<>>

\* For each run: whether it succeeded with non-empty text, and the registrar
\* and the referral hostname found in its text.
RunFacts ==
    [r \in 0..Len(Runs) |->
       [kind |-> RunOf(r).kind,
        succeeded |-> Succeeded(RunOf(r)),
        blank |-> /\ RunOf(r).kind = "CompletedProcess"
                  /\ RunOf(r).returncode = 0
                  /\ Strip(RunOf(r).stdout) = <<>>,
        registrar |-> find_registrar(parse_whois_data(RunOf(r).stdout)),
        referral |-> check_referral(parse_whois_data(RunOf(r).stdout))]]

RegistrarIn(r) == RunFacts[r].registrar

ReferralIn(r) == RunFacts[r].referral

\* The normalized form of each input domain.
NormalizedOf == [d \in DomainSamples |-> extract_registrable_domain(d)]

Futures == {fut[i] : i \in 1..Len(fut)}

\* C1: the result list follows the input list position by position: its
\* k-th element is what the k-th submitted call returned, for the k-th input
\* domain, and the returned list is as long as the input, whatever the order
\* in which the calls completed and whether or not domains repeat.
ResultsInInputOrder ==
    /\ \A k \in 1..Len(results) :
         /\ fut[k].pc = "done"
         /\ results[k] = fut[k].ret
         /\ results[k][1] = domains[k]
    /\ bpc \in {"returned", "printed"} => Len(results) = N

\* C1 witness: a returned batch of a repeated domain whose second call
\* completed first and whose two results differ.
ResultsInInputOrderWitness ==
    /\ bpc = "returned"
    /\ N >= 2
    /\ domains[1] = domains[2]
    /\ completed[1] = 2
    /\ results[1] # results[2]

\* C2: a call whose first query timed out returns (domain, "Timeout"); no
\* call raises and the batch never aborts; the returned batch holds every
\* call's own result; and calls given the same domain and the same runs
\* return the same tuple, whatever the other calls of the batch met.
TimeoutIsolated ==
    /\ bpc # "raised"
    /\ \A i \in 1..Len(fut) :
         /\ ~fut[i].raised
         /\ RunFacts[fut[i].out1].kind = "TimeoutExpired" =>
              /\ fut[i].pc = "done"
              /\ fut[i].ret = <<domains[i], S_Timeout>>
              /\ fut[i].out2 = 0
         /\ \A j \in 1..Len(fut) :
              /\ fut[i].pc = "done"
              /\ fut[j].pc = "done"
              /\ domains[i] = domains[j]
              /\ fut[i].out1 = fut[j].out1
              /\ fut[i].out2 = fut[j].out2
              => fut[i].ret = fut[j].ret
    /\ bpc \in {"returned", "printed"} =>
         /\ Len(results) = N
         /\ \A i \in 1..N : results[i] = fut[i].ret /\ results[i] # None

\* C2 witness: a returned batch whose first call timed out and whose second
\* resolved a registrar.
TimeoutIsolatedWitness ==
    /\ bpc = "returned"
    /\ N >= 2
    /\ RunFacts[fut[1].out1].kind = "TimeoutExpired"
    /\ results[1][2] = S_Timeout
    /\ results[2][2] = V_Acme

QueryCalls(calls) ==
    Cardinality({k \in 1..Len(calls) : calls[k] \in {"lookup", "subprocess.run"}})

\* C3: a call issues at most two queries, each once; it is at or past the
\* referral query only if its first query succeeded with non-empty text in
\* which no registrar but a referral hostname was found.
AtMostTwoQueries ==
    \A i \in 1..Len(fut) :
      LET f == fut[i]
      IN  /\ Len(f.queries) <= 2
          /\ QueryCalls(f.calls) = Len(f.queries)
          /\ (f.pc = "referral" \/ Len(f.queries) = 2) =>
               /\ RunFacts[f.out1].succeeded
               /\ RegistrarIn(f.out1) = None
               /\ ReferralIn(f.out1) # None
          /\ Len(f.queries) = 2 =>
               /\ f.queries[1].server = None
               /\ f.queries[2].server = ReferralIn(f.out1)
          /\ ~RunFacts[f.out1].succeeded => Len(f.queries) <= 1 /\ f.pc # "referral"

\* C3 witness: a call that issued both queries.
AtMostTwoQueriesWitness ==
    \E f \in Futures : f.pc = "done" /\ Len(f.queries) = 2

\* C4: the referral query asks the detected server for the normalized
\* domain, and the call returns the registrar of the referral response when
\* that query succeeds with non-empty text holding one, and the not-found
\* tuple in every other case.
ReferralOutcome ==
    \A i \in 1..Len(fut) :
      LET f == fut[i]
      IN  f.pc = "done" /\ Len(f.queries) = 2 =>
            /\ f.queries[2] = [server |-> ReferralIn(f.out1),
                               domain |-> NormalizedOf[domains[i]]]
            /\ IF RunFacts[f.out2].succeeded /\ RegistrarIn(f.out2) # None
               THEN f.ret = <<domains[i], RegistrarIn(f.out2)>>
               ELSE f.ret = <<domains[i], S_NoRegistrarFound>>

\* C4 witness: a referral that resolved a registrar beside a referral that
\* timed out.
ReferralOutcomeWitness ==
    /\ \E f \in Futures : Len(f.queries) = 2 /\ f.ret # None /\ f.ret[2] = V_Acme
    /\ \E f \in Futures : RunFacts[f.out2].kind = "TimeoutExpired" /\ f.pc = "done"

\* C5: a first query that exits 0 with empty or whitespace-only text makes
\* the call return (domain, "No WHOIS data returned") having called only
\* lookup: no parsing, no resolution, no referral query.
EmptyResponseIsError ==
    \A i \in 1..Len(fut) :
      LET f == fut[i]
      IN  RunFacts[f.out1].blank =>
             /\ f.pc = "done"
             /\ f.ret = <<domains[i], S_NoData>>
             /\ f.calls = <<"lookup">>
             /\ Len(f.queries) = 1

\* C5 witness: a call whose first response was a blank line.
EmptyResponseIsErrorWitness ==
    \E f \in Futures : RunOf(f.out1) = CompletedProcess(0, T_blank, <<>>) /\ f.pc = "done"

P_http == <<"h", "t", "t", "p", ":", "/", "/">>
P_https == <<"h", "t", "t", "p", "s", ":", "/", "/">>

\* C8: every queried domain is lower-case and carries no http:// or
\* https:// prefix.
QueriedDomainNormalized ==
    \A f \in Futures :
      \A k \in 1..Len(f.queries) :
        /\ f.queries[k].domain = Lower(f.queries[k].domain)
        /\ ~StartsWith(f.queries[k].domain, P_http)
        /\ ~StartsWith(f.queries[k].domain, P_https)

\* A call that ended with no registrar found: no referral hostname, or a
\* referral query that failed or yielded no registrar.
EndedWithoutRegistrar(f) ==
    /\ f.pc = "done"
    /\ RunFacts[f.out1].succeeded
    /\ RegistrarIn(f.out1) = None
    /\ \/ ReferralIn(f.out1) = None
       \/ ~(RunFacts[f.out2].succeeded /\ RegistrarIn(f.out2) # None)

S_NotFound == <<"N", "o", "t", " ", "f", "o", "u", "n", "d">>

\* The status reported for the calls that ended without a registrar is the
\* string status: in the call's tuple, in its line of the mapping report,
\* and in the json dict under the input domain (where a later call for the
\* same domain overwrites an earlier one).
ReportsStatus(status) ==
    \A i \in 1..Len(fut) :
      EndedWithoutRegistrar(fut[i]) =>
        /\ fut[i].ret = <<domains[i], status>>
        /\ bpc = "printed" /\ printed.format = "mapping" =>
             printed.lines[i] = domains[i] \o S_Arrow \o status
        /\ bpc = "printed" /\ printed.format = "json" =>
             /\ domains[i] \in DOMAIN printed.dict
             /\ (\A j \in (i + 1)..N : domains[j] # domains[i]) =>
                  printed.dict[domains[i]] = status

\* C10 as stated: the reported status is "Not found".
NotFoundReportedAsNotFound == ReportsStatus(S_NotFound)

\* C10 amended: the reported status is "No registrar found", keyed by the
\* original input domain.
NotFoundReportedAsNoRegistrarFound == ReportsStatus(S_NoRegistrarFound)

\* C10 witness: a printed batch with a call for a domain that normalisation
\* changes, which ended without a registrar.
NotFoundReportedWitness ==
    /\ bpc = "printed"
    /\ \E i \in 1..N :
         /\ EndedWithoutRegistrar(fut[i])
         /\ domains[i] # fut[i].normalized

----------------------------------------------------------------------------
(* Properties of the pure functions.                                       *)

ClaimFieldOrder ==
    <<F_registrar, F_sponsoring_registrar, F_registrar_name,
      F_registrar_organization, F_registrant_organization>>

ClaimNoisy(value) ==
    \/ Contains(Lower(value), N_http)
    \/ Contains(Lower(value), N_whois)
    \/ Contains(Lower(value), N_com)
    \/ Contains(Lower(value), N_net)

AcceptableFields(record) ==
    {i \in 1..Len(ClaimFieldOrder) :
       /\ ClaimFieldOrder[i] \in DOMAIN record
       /\ ~ClaimNoisy(record[ClaimFieldOrder[i]])}

\* C6: find_registrar returns the value of the first field, in the order
\* registrar, sponsoring registrar, registrar name, registrar organization,
\* registrant organization, that is present with a value free of the noise
\* patterns, and None exactly when there is no such field.
FirstAcceptableField ==
    fnPc = "called" =>
      IF AcceptableFields(fnIn) = {}
      THEN fnOut = None
      ELSE fnOut = fnIn[ClaimFieldOrder[SetMin(AcceptableFields(fnIn))]]

\* C6 witness: a noisy registrar field skipped for a lower-priority field.
FirstAcceptableFieldWitness ==
    /\ fnPc = "called"
    /\ F_registrar \in DOMAIN fnIn
    /\ ClaimNoisy(fnIn[F_registrar])
    /\ F_registrant_organization \in DOMAIN fnIn
    /\ fnOut = fnIn[F_registrant_organization]
    /\ fnOut # None

\* C7: normalising a normalised domain changes nothing.
NormalizeIdempotent == fnPc = "recalled" => fnAgain = fnOut

ColonAt(t) == SetMin({j \in 1..Len(t) : t[j] = ":"})

LineKey(t) == Lower(Strip(SubSeq(t, 1, ColonAt(t) - 1)))

LineValue(t) == Strip(SubSeq(t, ColonAt(t) + 1, Len(t)))

\* The lines of a text that yield an entry, by their positions.
QualifyingLines(text) ==
    LET lines == Split(text, "\n")
    IN  {i \in 1..Len(lines) :
           LET t == Strip(lines[i])
           IN  /\ t # <<>>
               /\ t[1] \notin {"%", "#"}
               /\ \E j \in 1..Len(t) : t[j] = ":"
               /\ LineValue(t) # <<>>}

TrimmedLine(text, i) == Strip(Split(text, "\n")[i])

\* C9: the record's keys are the keys of the qualifying lines (trimmed,
\* non-empty, no comment, holding a colon, with a non-empty value); each key
\* is the trimmed lower-cased text before the line's first colon, each value
\* the trimmed text after it; no value is empty; the last qualifying line of
\* a key gives its value.
ParsedRecordIsLastQualifying ==
    fnPc = "called" =>
      /\ DOMAIN fnOut = {LineKey(TrimmedLine(fnIn, i)) : i \in QualifyingLines(fnIn)}
      /\ \A k \in DOMAIN fnOut :
           /\ fnOut[k] # <<>>
           /\ fnOut[k] =
                LineValue(TrimmedLine(fnIn,
                  SetMax({i \in QualifyingLines(fnIn) :
                            LineKey(TrimmedLine(fnIn, i)) = k})))

\* C9 witness: a text with a comment line and two qualifying lines of one
\* key with different values, the later of which is in the record.
ParsedRecordWitness ==
    /\ fnPc = "called"
    /\ \E i \in 1..Len(Split(fnIn, "\n")) : StartsWith(Strip(Split(fnIn, "\n")[i]), <<"%">>)
    /\ \E i, j \in QualifyingLines(fnIn) :
         /\ i < j
         /\ LineKey(TrimmedLine(fnIn, i)) = LineKey(TrimmedLine(fnIn, j))
         /\ LineValue(TrimmedLine(fnIn, i)) # LineValue(TrimmedLine(fnIn, j))
         /\ fnOut[LineKey(TrimmedLine(fnIn, j))] = LineValue(TrimmedLine(fnIn, j))

====
